---- MODULE Spec2Model ----
\* A model of main.py: the MiniVenmo registry, its User accounts, the shared
\* activity feed and the payment operations.
\*
\* Accounts are object identities 1..Len(users) (the order of construction);
\* a Payment or Friendship refers to its actor and target by identity.
\* Amounts and balances are Python floats.  They are modelled as integers
\* counting a unit that is a power of two (0.25 in the repository's tests:
\* 1.50, 3.25, 5.00, 5.50); on such values of this magnitude float addition,
\* subtraction and comparison are exact, and float(x) of a float is x.
\* Every account of Spec is made by MiniVenmo.create_user.
EXTENDS Integers, Sequences, FiniteSets, TLC

VARIABLES users, activity, charges, uuids, last

vars == <<users, activity, charges, uuids, last>>

\* ---------------------------------------------------------------- bounds
\* Accounts constructed, and entries of the feed (also uuid4() values drawn).
MaxUsers == 2
MaxActivity == 2
\* Longest string given to User(); the pattern allows 15 characters.
MaxNameLen == 16

\* ---------------------------------------------------------------- inputs
None == "None"

Bobby == <<"B", "o", "b", "b", "y">>
Carol == <<"C", "a", "r", "o", "l">>
Bob == <<"B", "o", "b">>
Usernames == {Bobby, Carol, Bob}

Visa1 == "4111111111111111"
Visa2 == "4242424242424242"
BadCard == "1234"
CardNumbers == {Visa1, Visa2, BadCard}

Amounts == -1 .. 2
InitialBalances == {1}
Notes == {"Tea"}

\* ------------------------------------------------------------ exceptions
NoExc == [exc |-> None, msg |-> ""]
UsernameException(m) == [exc |-> "UsernameException", msg |-> m]
PaymentException(m) == [exc |-> "PaymentException", msg |-> m]
CreditCardException(m) == [exc |-> "CreditCardException", msg |-> m]
AttributeError == [exc |-> "AttributeError", msg |-> "NoneType"]
ChargeDeclinedError == [exc |-> "ChargeDeclinedError", msg |-> "declined"]

\* ---------------------------------------------------------- entry model
Payment(id, amount, actor, target, note) ==
    [kind |-> "Payment", id |-> id, amount |-> amount,
     actor |-> actor, target |-> target, note |-> note]

Friendship(actor, target) ==
    [kind |-> "Friendship", actor |-> actor, target |-> target]

\* ------------------------------------------------------------ validators
Letters ==
    {"A","B","C","D","E","F","G","H","I","J","K","L","M",
     "N","O","P","Q","R","S","T","U","V","W","X","Y","Z",
     "a","b","c","d","e","f","g","h","i","j","k","l","m",
     "n","o","p","q","r","s","t","u","v","w","x","y","z"}
Digits == {"0","1","2","3","4","5","6","7","8","9"}
UsernameChars == Letters \cup Digits \cup {"_", "-"}

\* re.match('^[A-Za-z0-9_\-]{4,15}$', username): n in 4..15 characters of the
\* class from the start, then "$", which matches at the end of the string and
\* also just before a line break that ends the string.
_is_valid_username(username) ==
    \E n \in 4 .. 15 :
        /\ n <= Len(username)
        /\ \A i \in 1 .. n : username[i] \in UsernameChars
        /\ \/ n = Len(username)
           \/ n = Len(username) - 1 /\ username[n + 1] = "\n"

_is_valid_credit_card(credit_card_number) ==
    credit_card_number \in {Visa1, Visa2}

\* ------------------------------------------------ the state as one value
\* st.users[u]: [username, balance, credit_card_number, venmo];
\* st.activity: MiniVenmo.activity; st.charges: the calls received by
\* _charge_credit_card; st.uuids: how many uuid4() values were drawn;
\* st.declines: whether the card processor put in place of the stub of
\* _charge_credit_card refuses the charge of this call (the stub never does).
State ==
    [users |-> users, activity |-> activity, charges |-> charges, uuids |-> uuids,
     declines |-> FALSE]

Outcome(st, e, ret) == [st |-> st, exc |-> e.exc, msg |-> e.msg, ret |-> ret]

\* Variant: one id computed once and shared by every Payment.
uuid4_shared(st) == 1

\* uuid.uuid4(): the k-th value drawn is a value different from all earlier ones.
uuid4(st) == st.uuids + 1

\* Variant: the sign of the amount is lost.
add_to_balance_abs(st, u, amount) ==
    [st EXCEPT !.users[u].balance = @ + (IF amount < 0 THEN -amount ELSE amount)]

add_to_balance(st, u, amount) ==
    [st EXCEPT !.users[u].balance = @ + amount]

\* The stub returns; a processor that refuses the charge raises.
_charge_credit_card(st, credit_card_number, amount) ==
    LET called == [st EXCEPT !.charges = Append(@, <<credit_card_number, amount>>)]
    IN IF st.declines
       THEN Outcome(called, ChargeDeclinedError, <<>>)
       ELSE Outcome(called, NoExc, <<>>)

\* Payment(...) is constructed first (drawing its id), then appended to
\* self.venmo.activity, which raises AttributeError when venmo is None.
create_payment(st, u, amount, target, note) ==
    LET payment == Payment(uuid4(st), amount, u, target, note)
        drawn == [st EXCEPT !.uuids = @ + 1]
    IN IF st.users[u].venmo = None
       THEN Outcome(drawn, AttributeError, <<>>)
       ELSE Outcome([drawn EXCEPT !.activity = Append(@, payment)], NoExc, <<payment>>)

\* Variant: the card path debits the actor's balance as the balance path does.
pay_with_card_debits(st, u, target, amount, note) ==
    IF st.users[u].username = st.users[target].username
    THEN Outcome(st, PaymentException("User cannot pay themselves."), <<>>)
    ELSE IF amount <= 0
    THEN Outcome(st, PaymentException("Amount must be a non-negative number."), <<>>)
    ELSE IF st.users[u].credit_card_number = None
    THEN Outcome(st, PaymentException("Must have a credit card to make a payment."), <<>>)
    ELSE LET charged == _charge_credit_card(st, st.users[u].credit_card_number, amount).st
             debited == add_to_balance(charged, u, -amount)
             credited == add_to_balance(debited, target, amount)
         IN create_payment(credited, u, amount, target, note)

\* Variant: the card is charged before the presence of a card is checked.
pay_with_card_charges_first(st, u, target, amount, note) ==
    LET charged == _charge_credit_card(st, st.users[u].credit_card_number, amount).st
    IN IF st.users[u].username = st.users[target].username
       THEN Outcome(st, PaymentException("User cannot pay themselves."), <<>>)
       ELSE IF amount <= 0
       THEN Outcome(st, PaymentException("Amount must be a non-negative number."), <<>>)
       ELSE IF st.users[u].credit_card_number = None
       THEN Outcome(charged, PaymentException("Must have a credit card to make a payment."), <<>>)
       ELSE create_payment(add_to_balance(charged, target, amount), u, amount, target, note)

\* Variant: the card path has no self-payment check.
pay_with_card_no_self_check(st, u, target, amount, note) ==
    IF amount <= 0
    THEN Outcome(st, PaymentException("Amount must be a non-negative number."), <<>>)
    ELSE IF st.users[u].credit_card_number = None
    THEN Outcome(st, PaymentException("Must have a credit card to make a payment."), <<>>)
    ELSE LET charged == _charge_credit_card(st, st.users[u].credit_card_number, amount).st
             credited == add_to_balance(charged, target, amount)
         IN create_payment(credited, u, amount, target, note)

\* Variant: the card is looked for before the other two checks.
pay_with_card_card_check_first(st, u, target, amount, note) ==
    IF st.users[u].credit_card_number = None
    THEN Outcome(st, PaymentException("Must have a credit card to make a payment."), <<>>)
    ELSE IF st.users[u].username = st.users[target].username
    THEN Outcome(st, PaymentException("User cannot pay themselves."), <<>>)
    ELSE IF amount <= 0
    THEN Outcome(st, PaymentException("Amount must be a non-negative number."), <<>>)
    ELSE LET charged == _charge_credit_card(st, st.users[u].credit_card_number, amount).st
             credited == add_to_balance(charged, target, amount)
         IN create_payment(credited, u, amount, target, note)

\* Variant: the target is credited before the card is charged.
pay_with_card_credits_first(st, u, target, amount, note) ==
    IF st.users[u].username = st.users[target].username
    THEN Outcome(st, PaymentException("User cannot pay themselves."), <<>>)
    ELSE IF amount <= 0
    THEN Outcome(st, PaymentException("Amount must be a non-negative number."), <<>>)
    ELSE IF st.users[u].credit_card_number = None
    THEN Outcome(st, PaymentException("Must have a credit card to make a payment."), <<>>)
    ELSE LET credited == add_to_balance(st, target, amount)
             charged == _charge_credit_card(credited, st.users[u].credit_card_number, amount)
         IN IF charged.exc # None
            THEN charged
            ELSE create_payment(charged.st, u, amount, target, note)

pay_with_card(st, u, target, amount, note) ==
    IF st.users[u].username = st.users[target].username
    THEN Outcome(st, PaymentException("User cannot pay themselves."), <<>>)
    ELSE IF amount <= 0
    THEN Outcome(st, PaymentException("Amount must be a non-negative number."), <<>>)
    ELSE IF st.users[u].credit_card_number = None
    THEN Outcome(st, PaymentException("Must have a credit card to make a payment."), <<>>)
    ELSE LET charged == _charge_credit_card(st, st.users[u].credit_card_number, amount)
             credited == add_to_balance(charged.st, target, amount)
         IN IF charged.exc # None
            THEN charged
            ELSE create_payment(credited, u, amount, target, note)

\* Variant: the balance path has no insufficient-funds check.
pay_with_balance_unchecked(st, u, target, amount, note) ==
    IF st.users[u].username = st.users[target].username
    THEN Outcome(st, PaymentException("User cannot pay themselves."), <<>>)
    ELSE IF amount <= 0
    THEN Outcome(st, PaymentException("Amount must be a non-negative number."), <<>>)
    ELSE LET debited == add_to_balance(st, u, -amount)
             credited == add_to_balance(debited, target, amount)
         IN create_payment(credited, u, amount, target, note)

\* Variant: the amount check is "amount < 0.0", which lets zero through.
pay_with_balance_allows_zero(st, u, target, amount, note) ==
    IF st.users[u].username = st.users[target].username
    THEN Outcome(st, PaymentException("User cannot pay themselves."), <<>>)
    ELSE IF amount < 0
    THEN Outcome(st, PaymentException("Amount must be a non-negative number."), <<>>)
    ELSE IF st.users[u].balance < amount
    THEN Outcome(st, PaymentException("Insufficient funds."), <<>>)
    ELSE LET debited == add_to_balance(st, u, -amount)
             credited == add_to_balance(debited, target, amount)
         IN create_payment(credited, u, amount, target, note)

\* Variant: the target is credited and the actor is not debited.
pay_with_balance_no_debit(st, u, target, amount, note) ==
    IF st.users[u].username = st.users[target].username
    THEN Outcome(st, PaymentException("User cannot pay themselves."), <<>>)
    ELSE IF amount <= 0
    THEN Outcome(st, PaymentException("Amount must be a non-negative number."), <<>>)
    ELSE IF st.users[u].balance < amount
    THEN Outcome(st, PaymentException("Insufficient funds."), <<>>)
    ELSE LET credited == add_to_balance(st, target, amount)
         IN create_payment(credited, u, amount, target, note)

pay_with_balance(st, u, target, amount, note) ==
    IF st.users[u].username = st.users[target].username
    THEN Outcome(st, PaymentException("User cannot pay themselves."), <<>>)
    ELSE IF amount <= 0
    THEN Outcome(st, PaymentException("Amount must be a non-negative number."), <<>>)
    ELSE IF st.users[u].balance < amount
    THEN Outcome(st, PaymentException("Insufficient funds."), <<>>)
    ELSE LET debited == add_to_balance(st, u, -amount)
             credited == add_to_balance(debited, target, amount)
         IN create_payment(credited, u, amount, target, note)

\* Variant: when the card path fails too, the balance path's error is raised.
pay_reraises_balance_error(st, u, target, amount, note) ==
    LET r == pay_with_balance(st, u, target, amount, note)
        c == pay_with_card(r.st, u, target, amount, note)
    IN IF r.exc = "PaymentException"
       THEN IF c.exc = "PaymentException" THEN Outcome(c.st, r, <<>>) ELSE c
       ELSE r

\* Variant: a balance that does not cover the amount is used up and the card
\* is charged the rest.
pay_splits(st, u, target, amount, note) ==
    LET r == pay_with_balance(st, u, target, amount, note)
        rest == amount - st.users[u].balance
        charged == _charge_credit_card(st, st.users[u].credit_card_number, rest).st
        debited == add_to_balance(charged, u, -st.users[u].balance)
        credited == add_to_balance(debited, target, amount)
    IN IF r.exc = "PaymentException"
       THEN IF /\ r.msg = "Insufficient funds."
               /\ st.users[u].balance > 0
               /\ st.users[u].credit_card_number # None
            THEN create_payment(credited, u, amount, target, note)
            ELSE pay_with_card(r.st, u, target, amount, note)
       ELSE r

\* try pay_with_balance; except PaymentException: pay_with_card.
pay(st, u, target, amount, note) ==
    LET r == pay_with_balance(st, u, target, amount, note)
    IN IF r.exc = "PaymentException"
       THEN pay_with_card(r.st, u, target, amount, note)
       ELSE r

\* Variant: no "only one credit card" check; a valid number replaces the card.
add_credit_card_overwrites(st, u, credit_card_number) ==
    IF _is_valid_credit_card(credit_card_number)
    THEN Outcome([st EXCEPT !.users[u].credit_card_number = credit_card_number], NoExc, <<>>)
    ELSE Outcome(st, CreditCardException("Invalid credit card number."), <<>>)

add_credit_card(st, u, credit_card_number) ==
    IF st.users[u].credit_card_number # None
    THEN Outcome(st, CreditCardException("Only one credit card per user!"), <<>>)
    ELSE IF _is_valid_credit_card(credit_card_number)
    THEN Outcome([st EXCEPT !.users[u].credit_card_number = credit_card_number], NoExc, <<>>)
    ELSE Outcome(st, CreditCardException("Invalid credit card number."), <<>>)

\* Variant: the Friendship is put at the front of the feed.
add_friend_prepends(st, u, new_friend) ==
    IF st.users[u].venmo = None
    THEN Outcome(st, AttributeError, <<>>)
    ELSE Outcome([st EXCEPT !.activity = <<Friendship(u, new_friend)>> \o @], NoExc, <<>>)

\* Variant: befriending oneself or an account befriended before is refused.
add_friend_validates(st, u, new_friend) ==
    IF st.users[u].venmo = None
    THEN Outcome(st, AttributeError, <<>>)
    ELSE IF \/ u = new_friend
            \/ \E i \in 1 .. Len(st.activity) : st.activity[i] = Friendship(u, new_friend)
    THEN Outcome(st, PaymentException("Already friends."), <<>>)
    ELSE Outcome([st EXCEPT !.activity = Append(@, Friendship(u, new_friend))], NoExc, <<>>)

add_friend(st, u, new_friend) ==
    IF st.users[u].venmo = None
    THEN Outcome(st, AttributeError, <<>>)
    ELSE Outcome([st EXCEPT !.activity = Append(@, Friendship(u, new_friend))], NoExc, <<>>)

\* Variant: only the entries the account is the actor of.
SelectEntries_actor_only(feed, u) ==
    SelectSeq(feed, LAMBDA entry : entry.actor = u)

RECURSIVE SelectEntries(_, _)
SelectEntries(feed, u) ==
    IF feed = <<>> THEN <<>>
    ELSE LET entry == Head(feed)
             rest == SelectEntries(Tail(feed), u)
         IN IF u = entry.actor \/ u = entry.target THEN <<entry>> \o rest ELSE rest

\* [entry for entry in self.venmo.activity if self in (entry.actor, entry.target)]
retrieve_feed(st, u) ==
    IF st.users[u].venmo = None
    THEN Outcome(st, AttributeError, <<>>)
    ELSE Outcome(st, NoExc, SelectEntries(st.activity, u))

\* User(username): balance 0.0, no card, no registry.
User(st, username) ==
    IF _is_valid_username(username)
    THEN Outcome([st EXCEPT !.users = Append(@,
                    [username |-> username, balance |-> 0,
                     credit_card_number |-> None, venmo |-> None])], NoExc, <<>>)
    ELSE Outcome(st, UsernameException("Username not valid."), <<>>)

register_venmo(st, u) == [st EXCEPT !.users[u].venmo = "venmo"]

\* MiniVenmo.create_user: a failure in User() or add_credit_card() propagates
\* and the half-built account is dropped (nothing refers to it).
create_user(st, username, balance, credit_card_number) ==
    LET made == User(st, username)
        u == Len(made.st.users)
        funded == add_to_balance(made.st, u, balance)
        carded == IF credit_card_number # None
                  THEN add_credit_card(funded, u, credit_card_number)
                  ELSE Outcome(funded, NoExc, <<>>)
    IN IF made.exc # None THEN made
       ELSE IF carded.exc # None THEN Outcome(st, carded, <<>>)
       ELSE Outcome(register_venmo(carded.st, u), NoExc, <<>>)

\* ------------------------------------------------------------ transitions
Accounts == 1 .. Len(users)

WithinBounds(st) ==
    /\ Len(st.users) <= MaxUsers
    /\ Len(st.activity) <= MaxActivity
    /\ st.uuids <= MaxActivity

\* One call of an operation: the state becomes the one the operation leaves,
\* and last holds what the caller observes (the value returned, or the
\* exception raised and its message).
Call(op, result) ==
    \E r \in {result} :
        /\ WithinBounds(r.st)
        /\ users' = r.st.users
        /\ activity' = r.st.activity
        /\ charges' = r.st.charges
        /\ uuids' = r.st.uuids
        /\ last' = [op |-> op, exc |-> r.exc, msg |-> r.msg, ret |-> r.ret]

Init ==
    /\ users = <<>>
    /\ activity = <<>>
    /\ charges = <<>>
    /\ uuids = 0
    /\ last = [op |-> "MiniVenmo", exc |-> None, msg |-> "", ret |-> <<>>]

CreateUserCall(username, balance, number) ==
    Call("create_user", create_user(State, username, balance, number))

AddCreditCardCall(u, number) ==
    Call("add_credit_card", add_credit_card(State, u, number))

AddFriendCall(u, v) ==
    Call("add_friend", add_friend(State, u, v))

RetrieveFeedCall(u) ==
    Call("retrieve_feed", retrieve_feed(State, u))

PayWithBalanceCall(u, v, amount, note) ==
    Call("pay_with_balance", pay_with_balance(State, u, v, amount, note))

PayWithCardCall(u, v, amount, note) ==
    Call("pay_with_card", pay_with_card(State, u, v, amount, note))

PayCall(u, v, amount, note) ==
    Call("pay", pay(State, u, v, amount, note))

CreateUser ==
    \E username \in Usernames, balance \in InitialBalances,
       number \in {None, Visa1, BadCard} :
        CreateUserCall(username, balance, number)

AddCreditCard ==
    \E u \in Accounts, number \in CardNumbers : AddCreditCardCall(u, number)

AddFriend ==
    \E u \in Accounts, v \in Accounts : AddFriendCall(u, v)

RetrieveFeed ==
    \E u \in Accounts : RetrieveFeedCall(u)

PayWithBalance ==
    \E u \in Accounts, v \in Accounts, amount \in Amounts, note \in Notes :
        PayWithBalanceCall(u, v, amount, note)

PayWithCard ==
    \E u \in Accounts, v \in Accounts, amount \in Amounts, note \in Notes :
        PayWithCardCall(u, v, amount, note)

Pay ==
    \E u \in Accounts, v \in Accounts, amount \in Amounts, note \in Notes :
        PayCall(u, v, amount, note)

Next ==
    \/ CreateUser
    \/ AddCreditCard
    \/ AddFriend
    \/ RetrieveFeed
    \/ PayWithBalance
    \/ PayWithCard
    \/ Pay

Spec == Init /\ [][Next]_vars

\* ------------------------------------- a card processor that may refuse
\* The state as a call finds it when the processor refuses its charge.
Declining == [State EXCEPT !.declines = TRUE]

PayWithCardDeclined ==
    \E u \in Accounts, v \in Accounts, amount \in Amounts, note \in Notes :
        /\ Len(charges) < MaxActivity
        /\ Call("pay_with_card", pay_with_card(Declining, u, v, amount, note))

PayDeclined ==
    \E u \in Accounts, v \in Accounts, amount \in Amounts, note \in Notes :
        /\ Len(charges) < MaxActivity
        /\ Call("pay", pay(Declining, u, v, amount, note))

\* The operations that do not lead to a charge nor set up one are left out.
NextCharge ==
    \/ CreateUser
    \/ AddCreditCard
    \/ PayWithBalance
    \/ PayWithCard
    \/ Pay
    \/ PayWithCardDeclined
    \/ PayDeclined

SpecCharge == Init /\ [][NextCharge]_vars

\* ------------------------------------------- accounts built with User()
\* User(username) called directly, not through create_user: the account
\* belongs to no registry until register_venmo is called.
UserCall(username) ==
    Call("User", User(State, username))

\* Strings given to User(): "a" repeated, with at most one place holding
\* another character.
NameOf(len, place, c) ==
    [i \in 1 .. len |-> IF i = place THEN c ELSE "a"]

ProbeChars == {"Z", "9", "_", "-", "!", " ", "\n"}

NameInputs ==
    {NameOf(len, place, c) : len \in 0 .. MaxNameLen, place \in 0 .. MaxNameLen,
                            c \in ProbeChars}

\* One account is constructed from a string.
Construct ==
    \E username \in NameInputs :
        /\ users = <<>>
        /\ last.op = "MiniVenmo"
        /\ UserCall(username)

NextUsername ==
    Construct

SpecUsername == Init /\ [][NextUsername]_vars

\* Accounts constructed directly take part next to the registry's own.
NewUser ==
    \E username \in Usernames : UserCall(username)

NextDirect ==
    \/ NewUser
    \/ CreateUser
    \/ AddCreditCard
    \/ AddFriend
    \/ RetrieveFeed
    \/ PayWithBalance
    \/ PayWithCard
    \/ Pay

SpecDirect == Init /\ [][NextDirect]_vars

\* ------------------------------------------------------------ properties
\* A property of an operation is stated of its outcome r in every reachable
\* state and for every input: r.st is the state the call leaves, r.exc the
\* exception it raises (None when it returns) and r.ret the value returned.
Balance(u) == users[u].balance

Card(u) == users[u].credit_card_number

PaymentOps == {"pay", "pay_with_balance", "pay_with_card"}

PaymentOutcome(op, u, v, amount, note) ==
    CASE op = "pay" -> pay(State, u, v, amount, note)
      [] op = "pay_with_balance" -> pay_with_balance(State, u, v, amount, note)
      [] op = "pay_with_card" -> pay_with_card(State, u, v, amount, note)

\* r appends exactly one entry to the feed: the Payment of these parties,
\* amount and note that it returns.
AppendsPayment(r, u, v, amount, note) ==
    /\ Len(r.ret) = 1
    /\ r.st.activity = Append(activity, r.ret[1])
    /\ r.ret[1].kind = "Payment"
    /\ r.ret[1].actor = u
    /\ r.ret[1].target = v
    /\ r.ret[1].amount = amount
    /\ r.ret[1].note = note

FreshId(r) ==
    \A i \in 1 .. Len(activity) :
        activity[i].kind = "Payment" => activity[i].id # r.ret[1].id

\* r leaves balances, cards, feed and charge log as they are.
ChangesNothing(r) ==
    /\ r.st.users = users
    /\ r.st.activity = activity
    /\ r.st.charges = charges

C2_CardPaymentEffects ==
    \A u \in Accounts, v \in Accounts, amount \in Amounts, note \in Notes :
        LET r == pay_with_card(State, u, v, amount, note)
        IN r.exc = None =>
            /\ r.st.users[u].balance = Balance(u)
            /\ r.st.users[v].balance = Balance(v) + amount
            /\ Card(u) # None
            /\ r.st.charges = Append(charges, <<Card(u), amount>>)
            /\ AppendsPayment(r, u, v, amount, note)

\* A card payment succeeded for an actor whose balance would have covered it.
C2_Witness ==
    /\ last.op = "pay_with_card"
    /\ last.exc = None
    /\ Len(charges) = 1
    /\ Balance(last.ret[1].actor) >= last.ret[1].amount

\* C3: for every call X.pay(Y, amount, note) where Y is a different account
\* from X and amount > 0: if X's balance >= amount the payment is funded from
\* the balance and the charge collaborator is not invoked, even when X has a
\* card; if X's balance < amount and X has a card it is funded by the card;
\* if X's balance < amount and X has no card the call fails.
C3_PayFunding ==
    \A u \in Accounts, v \in Accounts, amount \in Amounts, note \in Notes :
        (u # v /\ amount > 0) =>
            LET r == pay(State, u, v, amount, note)
            IN IF Balance(u) >= amount
               THEN /\ r.exc = None
                    /\ r.st.users[u].balance = Balance(u) - amount
                    /\ r.st.charges = charges
               ELSE IF Card(u) # None
               THEN /\ r.exc = None
                    /\ r.st.users[u].balance = Balance(u)
                    /\ r.st.charges = Append(charges, <<Card(u), amount>>)
               ELSE r.exc = "PaymentException"

ValidationMessages ==
    {"User cannot pay themselves.", "Amount must be a non-negative number.",
     "Insufficient funds.", "Must have a credit card to make a payment."}

\* C4: whenever pay, pay_with_balance or pay_with_card fails a validation
\* (self-payment, non-positive amount, insufficient funds, missing card),
\* every balance, every card and the feed are as before the call and the
\* charge collaborator was not invoked; also for the composite pay.
C4_FailedValidationChangesNothing ==
    \A op \in PaymentOps, u \in Accounts, v \in Accounts,
       amount \in Amounts, note \in Notes :
        LET r == PaymentOutcome(op, u, v, amount, note)
        IN r.exc = "PaymentException" =>
            /\ r.msg \in ValidationMessages
            /\ ChangesNothing(r)

\* The composite pay failed after running both sub-strategies (the balance
\* path found insufficient funds, the card path found no card).
C4_Witness ==
    /\ last.op = "pay"
    /\ last.exc = "PaymentException"
    /\ last.msg = "Must have a credit card to make a payment."

\* C5 as claimed: for every Payment appended to the feed by pay,
\* pay_with_balance or pay_with_card, the actor's balance decreased by the
\* payment's amount and the target's balance increased by that same amount.
C5_EveryPaymentDebitsActor ==
    \A op \in PaymentOps, u \in Accounts, v \in Accounts,
       amount \in Amounts, note \in Notes :
        LET r == PaymentOutcome(op, u, v, amount, note)
        IN Len(r.st.activity) > Len(activity) =>
            /\ r.st.users[u].balance = Balance(u) - amount
            /\ r.st.users[v].balance = Balance(v) + amount

\* C5 as amended: every Payment appended by pay, pay_with_balance or
\* pay_with_card is a single feed entry whose target's balance increased by
\* the payment's amount, and it has exactly one funding: either the actor's
\* balance decreased by that amount and nothing was charged (always so in
\* pay_with_balance), or the actor's balance is unchanged and the charge
\* collaborator was invoked once with the actor's card and that amount (always
\* so in pay_with_card).
C5_PaymentHasOneFunding ==
    \A op \in PaymentOps, u \in Accounts, v \in Accounts,
       amount \in Amounts, note \in Notes :
        LET r == PaymentOutcome(op, u, v, amount, note)
            byBalance == /\ r.st.users[u].balance = Balance(u) - amount
                         /\ r.st.charges = charges
            byCard == /\ r.st.users[u].balance = Balance(u)
                      /\ r.st.charges = Append(charges, <<Card(u), amount>>)
        IN Len(r.st.activity) > Len(activity) =>
            /\ AppendsPayment(r, u, v, amount, note)
            /\ r.st.users[v].balance = Balance(v) + amount
            /\ byBalance \/ byCard
            /\ ~(byBalance /\ byCard)
            /\ op = "pay_with_balance" => byBalance
            /\ op = "pay_with_card" => byCard

\* The composite pay appended a Payment that the card funded: the only entry
\* of the feed has a charge, and its actor still holds a balance.
C5_Witness ==
    /\ last.op = "pay"
    /\ last.exc = None
    /\ Len(activity) = 1
    /\ Len(charges) = 1
    /\ Balance(activity[1].actor) > 0

\* C6: starting from accounts created by create_user with non-negative initial
\* balances, after any sequence of pay, pay_with_balance, pay_with_card,
\* add_credit_card and add_friend calls, every balance is non-negative.
C6_BalancesNonNegative ==
    \A u \in Accounts : Balance(u) >= 0

\* A balance payment has spent the actor's whole balance.
C6_Witness ==
    /\ last.op = "pay_with_balance"
    /\ last.exc = None
    /\ Balance(last.ret[1].actor) = 0

\* The places of the feed at which the account is the actor or the target.
PlacesOf(feed, u) ==
    {i \in 1 .. Len(feed) : feed[i].actor = u \/ feed[i].target = u}

\* C7: X.retrieve_feed() returns exactly the entries of the feed in which X is
\* the actor or the target (by identity), in their append order, none
\* omitted, duplicated or added, and does not modify the feed.
C7_RetrieveFeedExact ==
    \A u \in Accounts :
        LET r == retrieve_feed(State, u)
            places == PlacesOf(activity, u)
        IN r.exc = None =>
            /\ Len(r.ret) = Cardinality(places)
            /\ \E f \in [1 .. Len(r.ret) -> places] :
                  /\ \A j \in 1 .. Len(r.ret), k \in 1 .. Len(r.ret) : j < k => f[j] < f[k]
                  /\ \A k \in 1 .. Len(r.ret) : r.ret[k] = activity[f[k]]
            /\ r.st = State

\* retrieve_feed returned one entry of a feed of two: one was left out.
C7_Witness ==
    /\ last.op = "retrieve_feed"
    /\ last.exc = None
    /\ Len(activity) = 2
    /\ Len(last.ret) = 1

\* C8: the card is write-once: add_credit_card on an account that has a card
\* always fails, whatever number is passed, and leaves the card in place; and
\* across any sequence of operations a card once set never changes and is
\* never unset.
C8_CardWriteOnce ==
    [][/\ \A u \in Accounts :
            Card(u) # None => users'[u].credit_card_number = Card(u)
       /\ last'.op = "add_credit_card" =>
            \A u \in Accounts, number \in CardNumbers :
                (AddCreditCardCall(u, number) /\ Card(u) # None) =>
                   /\ last'.exc = "CreditCardException"
                   /\ last'.msg = "Only one credit card per user!"]_vars

\* add_credit_card was refused on an account that has a card.
C8_Witness ==
    /\ last.op = "add_credit_card"
    /\ last.msg = "Only one credit card per user!"
    /\ \E u \in Accounts : Card(u) # None

\* C9: for every account X, every amount and every balance/card state,
\* X.pay(X, ...), X.pay_with_balance(X, ...) and X.pay_with_card(X, ...) fail
\* with a payment error and append nothing to the feed.
C9_SelfPaymentFails ==
    \A op \in PaymentOps, u \in Accounts, amount \in Amounts, note \in Notes :
        LET r == PaymentOutcome(op, u, u, amount, note)
        IN /\ r.exc = "PaymentException"
           /\ ChangesNothing(r)

\* The only account of the registry, holding a card and a balance, tried to
\* pay itself through the composite pay.
C9_Witness ==
    /\ Len(users) = 1
    /\ Card(1) # None
    /\ Balance(1) > 0
    /\ last.op = "pay"
    /\ last.msg = "User cannot pay themselves."

\* C10: for every pair of accounts and every balance/card state, a payment
\* whose amount is zero or negative fails with a payment error in pay,
\* pay_with_balance and pay_with_card and appends nothing to the feed; a
\* negative amount never moves money.
C10_NonPositiveAmountFails ==
    \A op \in PaymentOps, u \in Accounts, v \in Accounts,
       amount \in Amounts, note \in Notes :
        amount <= 0 =>
            LET r == PaymentOutcome(op, u, v, amount, note)
            IN /\ r.exc = "PaymentException"
               /\ ChangesNothing(r)

\* A payment between two accounts of different names was refused for its amount.
C10_Witness ==
    /\ last.op \in PaymentOps
    /\ last.msg = "Amount must be a non-negative number."
    /\ Len(users) = 2
    /\ users[1].username # users[2].username

\* C11: whenever the composite pay fails with a payment error, the caller
\* gets the error of the card path (the one pay_with_card raises in the same
\* state) and never the error of the balance path: for an account whose
\* balance is below the amount and which has no card, the missing-card error
\* and not the insufficient-funds error.
C11_PayReportsCardError ==
    \A u \in Accounts, v \in Accounts, amount \in Amounts, note \in Notes :
        LET r == pay(State, u, v, amount, note)
            c == pay_with_card(State, u, v, amount, note)
        IN /\ r.exc = "PaymentException" =>
                /\ c.exc = "PaymentException"
                /\ r.msg = c.msg
                /\ r.msg # "Insufficient funds."
           /\ ( /\ users[u].username # users[v].username
                /\ amount > 0
                /\ Balance(u) < amount
                /\ Card(u) = None )
              => /\ r.exc = "PaymentException"
                 /\ r.msg = "Must have a credit card to make a payment."

\* An account holding a positive balance and no card called pay for more than
\* its balance and got the missing-card error.
C11_Witness ==
    /\ last.op = "pay"
    /\ last.exc = "PaymentException"
    /\ last.msg = "Must have a credit card to make a payment."
    /\ Len(users) = 2
    /\ users[1].username # users[2].username
    /\ \A u \in Accounts : Balance(u) > 0 /\ Card(u) = None

\* C12: a single call of pay never splits the amount between the two funding
\* sources: it either changes no balance and charges nothing (the call
\* failed), or takes the full amount from the actor's balance and charges
\* nothing, or charges the actor's card once with the full amount and leaves
\* the actor's balance as it was.
C12_PayNeverSplits ==
    \A u \in Accounts, v \in Accounts, amount \in Amounts, note \in Notes :
        LET r == pay(State, u, v, amount, note)
            debit == Balance(u) - r.st.users[u].balance
        IN \/ ChangesNothing(r) /\ r.exc # None
           \/ /\ r.exc = None
              /\ r.st.charges = charges
              /\ debit = amount
           \/ /\ r.exc = None
              /\ r.st.charges = Append(charges, <<Card(u), amount>>)
              /\ debit = 0

\* pay was called for more than the positive balance of an account holding a
\* card: the card was charged the full amount and the balance is still there.
C12_Witness ==
    /\ last.op = "pay"
    /\ last.exc = None
    /\ Len(charges) = 1
    /\ Len(activity) = 1
    /\ activity[1].kind = "Payment"
    /\ charges[1][2] = activity[1].amount
    /\ Balance(activity[1].actor) > 0
    /\ Balance(activity[1].actor) < activity[1].amount

\* C13: the feed is append-only: every step of create_user, add_credit_card,
\* add_friend, retrieve_feed, pay, pay_with_balance and pay_with_card leaves
\* the feed it found as a prefix of the new feed, in the same order and with
\* the same contents; the feed grows by exactly one entry when the step is a
\* payment or an add_friend that succeeded, and by none otherwise.
C13_FeedAppendOnly ==
    [][ /\ Len(activity') >= Len(activity)
        /\ SubSeq(activity', 1, Len(activity)) = activity
        /\ Len(activity') - Len(activity) =
              IF last'.exc = None /\ last'.op \in PaymentOps \cup {"add_friend"}
              THEN 1 ELSE 0 ]_vars

\* A feed of a Payment followed by a Friendship was read and is still there.
C13_Witness ==
    /\ last.op = "retrieve_feed"
    /\ Len(activity) = 2
    /\ activity[1].kind = "Payment"
    /\ activity[2].kind = "Friendship"

\* C17: for all accounts X and Y registered with the registry, Y = X and a
\* pair befriended before included, X.add_friend(Y) does not fail, puts
\* exactly one Friendship(X, Y) at the end of the feed, and changes no
\* balance, no card and nothing else.
C17_AddFriendEffects ==
    \A u \in Accounts, v \in Accounts :
        users[u].venmo # None =>
            LET r == add_friend(State, u, v)
            IN /\ r.exc = None
               /\ r.st.activity = Append(activity, Friendship(u, v))
               /\ r.st.users = users
               /\ r.st.charges = charges
               /\ r.st.uuids = uuids

\* An account befriended itself twice: the feed holds the two entries.
C17_Witness ==
    /\ last.op = "add_friend"
    /\ last.exc = None
    /\ Len(activity) = 2
    /\ activity[1] = activity[2]
    /\ activity[2].kind = "Friendship"
    /\ activity[2].actor = activity[2].target

\* C14: usernames are unique within a registry: no two accounts created by
\* create_user on one registry have the same username.
C14_UsernamesUnique ==
    \A u \in Accounts, v \in Accounts :
        u # v => users[u].username # users[v].username

\* C16: payment validation reports the first failing check of a fixed order.
\* Self-payment (actor and target of one username, as lines 90 and 106 test
\* it) is reported whatever the amount, the balance and the card; otherwise a
\* non-positive amount is reported whatever the balance and the card;
\* otherwise pay_with_balance reports insufficient funds and pay_with_card
\* the missing card.
C16_ValidationOrder ==
    \A u \in Accounts, v \in Accounts, amount \in Amounts, note \in Notes :
        LET b == pay_with_balance(State, u, v, amount, note)
            c == pay_with_card(State, u, v, amount, note)
            self == users[u].username = users[v].username
        IN /\ self =>
                /\ b.exc = "PaymentException" /\ c.exc = "PaymentException"
                /\ b.msg = "User cannot pay themselves."
                /\ c.msg = "User cannot pay themselves."
           /\ (~self /\ amount <= 0) =>
                /\ b.exc = "PaymentException" /\ c.exc = "PaymentException"
                /\ b.msg = "Amount must be a non-negative number."
                /\ c.msg = "Amount must be a non-negative number."
           /\ (~self /\ amount > 0 /\ Balance(u) < amount) =>
                /\ b.exc = "PaymentException"
                /\ b.msg = "Insufficient funds."
           /\ (~self /\ amount > 0 /\ Card(u) = None) =>
                /\ c.exc = "PaymentException"
                /\ c.msg = "Must have a credit card to make a payment."

\* Between two accounts of different names that hold no card, one of them
\* without funds, a card payment was refused for its amount.
C16_Witness ==
    /\ last.op = "pay_with_card"
    /\ last.msg = "Amount must be a non-negative number."
    /\ Len(users) = 2
    /\ users[1].username # users[2].username
    /\ \A u \in Accounts : Card(u) = None
    /\ \E u \in Accounts : Balance(u) = 0

\* A string of 4 to 15 characters, each of A-Z, a-z, 0-9, "_" and "-".
WellFormed(username) ==
    /\ Len(username) >= 4
    /\ Len(username) <= 15
    /\ \A i \in 1 .. Len(username) : username[i] \in UsernameChars

\* C15: account construction succeeds exactly for the well-formed strings:
\* every account constructed has a well-formed username, every well-formed
\* string is accepted, and a refused construction fails with the
\* invalid-username error; a string ending in a line break is not well-formed.
C15_ConstructionExact ==
    /\ \A u \in Accounts : WellFormed(users[u].username)
    /\ \A username \in NameInputs :
          WellFormed(username) => User(State, username).exc = None
    /\ (last.op = "User" /\ last.exc # None) =>
          /\ last.exc = "UsernameException"
          /\ last.msg = "Username not valid."

\* C18: a payment's side effects are atomic, also for an actor that was
\* constructed but never registered: every step of pay, pay_with_balance or
\* pay_with_card either updates balances and puts the new Payment in the
\* feed, or changes neither balances nor feed.
C18_PaymentAtomic ==
    [][ last'.op \in PaymentOps =>
          \/ /\ users' = users
             /\ activity' = activity
          \/ /\ users' # users
             /\ Len(activity') = Len(activity) + 1
             /\ activity'[Len(activity')].kind = "Payment" ]_vars

\* C19: when the charge fails during pay_with_card, called directly or
\* through the fallback of pay, the caller gets that failure, no balance is
\* changed (the target is not credited, the actor keeps its balance) and no
\* Payment is appended to the feed.
C19_ChargeFailureSurfaces ==
    \A op \in {"pay", "pay_with_card"}, u \in Accounts, v \in Accounts,
       amount \in Amounts, note \in Notes :
        LET r == IF op = "pay"
                 THEN pay(Declining, u, v, amount, note)
                 ELSE pay_with_card(Declining, u, v, amount, note)
        IN r.st.charges # charges =>
              /\ r.st.charges = Append(charges, <<Card(u), amount>>)
              /\ r.exc = "ChargeDeclinedError"
              /\ r.st.users = users
              /\ r.st.activity = activity

\* pay fell back to a card whose charge was refused: the failure is what the
\* caller got, the balances are the initial ones and the feed is empty.
C19_Witness ==
    /\ last.op = "pay"
    /\ last.exc = "ChargeDeclinedError"
    /\ Len(charges) = 1
    /\ activity = <<>>
    /\ Len(users) = 2
    /\ \A u \in Accounts : Balance(u) \in InitialBalances

RECURSIVE SumOfBalances(_)
SumOfBalances(us) ==
    IF us = <<>> THEN 0 ELSE us[1].balance + SumOfBalances(Tail(us))

\* C20: money is conserved. Every step changes the sum of all balances by
\* the initial balance of the account it created, if it created one, plus
\* the amount it charged to a card, if it charged one, and a charge comes
\* with the Payment of that amount appended to the feed; so a balance-funded
\* payment, a failed payment and add_friend leave the sum as it was, and the
\* sum is always the initial balances plus the card-funded payments.
C20_MoneyConserved ==
    [][ /\ SumOfBalances(users') = SumOfBalances(users)
              + (IF Len(users') > Len(users) THEN users'[Len(users')].balance ELSE 0)
              + (IF Len(charges') > Len(charges) THEN charges'[Len(charges')][2] ELSE 0)
        /\ Len(users') > Len(users) =>
              /\ last'.op = "create_user"
              /\ charges' = charges
        /\ Len(charges') > Len(charges) =>
              /\ last'.op \in {"pay", "pay_with_card"}
              /\ Len(activity') = Len(activity) + 1
              /\ activity'[Len(activity')].kind = "Payment"
              /\ activity'[Len(activity')].amount = charges'[Len(charges')][2] ]_vars

\* After a card-funded payment of 2, a balance-funded payment went through:
\* the two initial balances and the 2 charged are what the accounts hold.
C20_Witness ==
    /\ last.op = "pay_with_balance"
    /\ last.exc = None
    /\ Len(users) = 2
    /\ Len(charges) = 1
    /\ charges[1][2] = 2
    /\ Len(activity) = 2
    /\ SumOfBalances(users) = 4

====
